---- MODULE Spec2Model ----
(***************************************************************************)
(* Model of edalize's ModelSim backend (src/edalize/modelsim.py).          *)
(*                                                                         *)
(* A string is modelled as a sequence of chunks (a "token"); the string it *)
(* stands for is the concatenation of its chunks.  A script line is a      *)
(* sequence of tokens (the line is the tokens joined by one space), a file *)
(* on disk is a sequence of lines.  Python dictionaries that keep          *)
(* insertion order (vlogdefine, plusarg, ...) are sequences of key/value   *)
(* records; tool_options is a function whose DOMAIN holds the keys that    *)
(* are present.                                                            *)
(***************************************************************************)
EXTENDS Integers, Sequences, FiniteSets, TLC

VARIABLES
    src_files,      \* first component of self._get_fileset_files()
    incdirs,        \* second component of self._get_fileset_files()
    tool_options,   \* self.tool_options (the list values are shared objects)
    user_options,   \* the tool options as the user supplied them (history)
    vlogdefine,     \* self.vlogdefine
    vlogparam,      \* self.vlogparam
    generic,        \* self.generic
    plusarg,        \* self.plusarg
    vpi_modules,    \* self.vpi_modules
    toplevel,       \* self.toplevel
    build_rtl,      \* work_root/edalize_build_rtl.tcl
    main_tcl,       \* work_root/edalize_main.tcl
    makefile,       \* work_root/Makefile
    log,            \* records passed to logger.warning
    run_calls,      \* invocations of self._run_tool
    pc,             \* position inside configure_main: "idle", "loop", "makefile"
    idx,            \* loop index of `for f in src_files`
    libs,           \* local `libs`
    vlog_files,     \* local `vlog_files`
    n_configure,    \* number of completed configure_main calls
    n_run           \* number of run_main calls

vars == <<src_files, incdirs, tool_options, user_options, vlogdefine, vlogparam,
          generic, plusarg, vpi_modules, toplevel, build_rtl, main_tcl, makefile,
          log, run_calls, pc, idx, libs, vlog_files, n_configure, n_run>>

inputs == <<src_files, incdirs, user_options, vlogdefine, vlogparam, generic,
            plusarg, vpi_modules, toplevel>>

-----------------------------------------------------------------------------
(* Bounds of the model *)

MaxFiles == 2
MaxModules == 2
MaxCalls == 2

-----------------------------------------------------------------------------
(* Strings *)

Tok(s) == <<s>>

\* str.replace("\\", "/")
Replace(p) == [i \in 1..Len(p) |-> IF p[i] = "\\" THEN "/" ELSE p[i]]

\* str.startswith / str.endswith at the granularity of chunks
StartsWith(t, prefix) == Len(t) >= 1 /\ t[1] = prefix
EndsWith(t, suffix) == Len(t) >= 1 /\ t[Len(t)] = suffix

\* dict.get(key, default)
Get(d, k, default) == IF k \in DOMAIN d THEN d[k] ELSE default

\* Edatool._param_value_str: a bool renders as 1/0, or as true/false when
\* bool_is_str; anything else renders as str(value)
ParamValueStr(v, bool_is_str) ==
    IF v.type = "bool"
    THEN IF bool_is_str
         THEN (IF v.text = "True" THEN "true" ELSE "false")
         ELSE (IF v.text = "True" THEN "1" ELSE "0")
    ELSE v.text

\* "{}={}".format(key, value string)
KeyValue(k, s) == <<k, "=", s>>

\* sep.join(list of strings): one string
RECURSIVE Join(_, _)
Join(sep, toks) ==
    IF toks = <<>> THEN <<>>
    ELSE IF Len(toks) = 1 THEN toks[1]
    ELSE toks[1] \o <<sep>> \o Join(sep, Tail(toks))

Range(s) == {s[i] : i \in DOMAIN s}

\* os.path.splitext(path)[0]: the path without its extension; the extension
\* starts at the last dot of the last path component, leading dots excluded
SplitExtRoot(p) ==
    LET seps == {i \in DOMAIN p : p[i] = "/"}
        sepIdx == IF seps = {} THEN 0 ELSE CHOOSE i \in seps : \A j \in seps : j <= i
        dots == {i \in DOMAIN p : p[i] = "." /\ i > sepIdx}
        dotIdx == IF dots = {} THEN 0 ELSE CHOOSE i \in dots : \A j \in dots : j <= i
    IN  IF dotIdx > 0 /\ \E j \in (sepIdx + 1)..(dotIdx - 1) : p[j] # "."
        THEN SubSeq(p, 1, dotIdx - 1)
        ELSE p

-----------------------------------------------------------------------------
(* _write_build_rtl_tcl_file: the per-file dispatch *)

\* common_compilation
CommonCompilation(opts) == Get(opts, "compilation_mode", "") = "common"

\* if not f.logical_name: f.logical_name = "work"
LogicalName(f) == IF f.logical_name = "" THEN "work" ELSE f.logical_name

IsVerilog(f) ==
    StartsWith(f.file_type, "verilogSource") \/ StartsWith(f.file_type, "systemVerilogSource")

IsSystemVerilog(f) == StartsWith(f.file_type, "systemVerilogSource")

IsVhdl(f) == StartsWith(f.file_type, "vhdlSource")

IsTclSource(f) == f.file_type = <<"tclSource">>

IsUser(f) == f.file_type = <<"user">>

IsUnknown(f) == ~IsVerilog(f) /\ ~IsVhdl(f) /\ ~IsTclSource(f) /\ ~IsUser(f)

\* vlog_include_dirs
VlogIncludeDirs(dirs) == [i \in 1..Len(dirs) |-> <<"+incdir+">> \o Replace(dirs[i])]

\* the +define+ arguments built from self.vlogdefine
DefineArgs(defs) ==
    [i \in 1..Len(defs) |->
        <<"+define+">> \o KeyValue(defs[i].key, ParamValueStr(defs[i].value, FALSE))]

\* args of a Verilog/SystemVerilog file
VlogArgs(f, opts, defs, dirs) ==
    Get(opts, "vlog_options", <<>>)
        \o DefineArgs(defs)
        \o (IF IsSystemVerilog(f) THEN <<Tok("-sv")>> ELSE <<>>)
        \o VlogIncludeDirs(dirs)

\* The three `if`s on the suffix of a vhdlSource type.  The first two are
\* plain `if`s, so the `else` of the third one overwrites what they assigned.
VhdlStdArgs(file_type, stale) ==
    LET a1 == IF EndsWith(file_type, "-87") THEN <<Tok("-87")>> ELSE stale
        a2 == IF EndsWith(file_type, "-93") THEN <<Tok("-93")>> ELSE a1
        a3 == IF EndsWith(file_type, "-2008") THEN <<Tok("-2008")>> ELSE <<>>
    IN  a3

\* args of a VHDL file
VcomArgs(f, opts) == VhdlStdArgs(f.file_type, <<>>) \o Get(opts, "vcom_options", <<>>)

\* cmd ("" stands for None)
Cmd(f) ==
    IF IsVerilog(f) THEN "vlog"
    ELSE IF IsVhdl(f) THEN "vcom"
    ELSE ""

\* variant: the per-file directive is written whatever the compilation mode
EmitsCompileAnyMode(cmd, common) == cmd # ""

\* if cmd and ((cmd != "vlog") or not common_compilation)
EmitsCompile(cmd, common) == cmd # "" /\ (cmd # "vlog" \/ ~common)

\* variant: every file is compiled into "work", as the aggregate directive is
CompileLineIntoWork(cmd, args, f) ==
    <<Tok(cmd)>> \o args \o <<Tok("-quiet"), Tok("-work"), Tok("work"), Replace(f.name)>>

\* the line written for a compiled file
CompileLine(cmd, args, f) ==
    <<Tok(cmd)>> \o args
        \o <<Tok("-quiet"), Tok("-work"), Tok(LogicalName(f)), Replace(f.name)>>

\* lines written to the build script for a library not yet in libs
VlibLines(f, seen) ==
    IF LogicalName(f) \notin Range(seen)
    THEN << <<Tok("vlib"), Tok(LogicalName(f))>> >>
    ELSE <<>>

\* lines written to the build script by the compile part of one iteration
CompileLines(f, opts, defs, dirs) ==
    IF ~EmitsCompile(Cmd(f), CommonCompilation(opts)) THEN <<>>
    ELSE IF Cmd(f) = "vlog"
         THEN << CompileLine("vlog", VlogArgs(f, opts, defs, dirs), f) >>
         ELSE << CompileLine("vcom", VcomArgs(f, opts), f) >>

\* variant: the Tcl file's path is normalised like a compiled file's path
DoLineNormalised(f) == <<Tok("do"), Replace(f.name)>>

\* tcl_main.write("do {}\n".format(f.name))
DoLine(f) == <<Tok("do"), f.name>>

\* logger.warning("{} has unknown file type '{}'")
Warning(f) == [name |-> f.name, file_type |-> f.file_type]

\* the args of the aggregate vlog of common compilation; when tool_options
\* holds vlog_options, args IS that list and every += extends it in place
CommonArgs(opts, defs, dirs, vfiles) ==
    Get(opts, "vlog_options", <<>>)
        \o DefineArgs(defs)
        \o (IF \E i \in DOMAIN vfiles : IsSystemVerilog(vfiles[i])
            THEN <<Tok("-sv")>> ELSE <<>>)
        \o VlogIncludeDirs(dirs)
        \o <<Tok("-quiet"), Tok("-work"), Tok("work"), Tok("-mfcu")>>

\* the aggregate line: f"vlog {' '.join(args)} {' '.join(_vlog_files)}"
CommonLine(args, vfiles) ==
    <<Tok("vlog")>> \o args \o [i \in 1..Len(vfiles) |-> Replace(vfiles[i].name)]

\* self.tool_options after the common-compilation block
OptionsAfterCommon(opts, args) ==
    IF "vlog_options" \in DOMAIN opts
    THEN [opts EXCEPT !["vlog_options"] = args]
    ELSE opts

-----------------------------------------------------------------------------
(* _write_makefile *)

\* _parameters / _plusargs: "{}={}".format(key, self._param_value_str(value))
ParamStrs(d, bool_is_str) ==
    [i \in 1..Len(d) |-> KeyValue(d[i].key, ParamValueStr(d[i].value, bool_is_str))]

\* _modules
ModuleNames(mods) == [i \in 1..Len(mods) |-> mods[i].name]

\* variant: the clean targets are built from the modules but the first
CleanTargetsButFirst(names) == [i \in 1..(Len(names) - 1) |-> <<"clean_">> \o names[i + 1]]

\* _clean_targets, before the join
CleanTargets(names) == [i \in 1..Len(names) |-> <<"clean_">> \o names[i]]

\* _objs
Objs(m) == [i \in 1..Len(m.src_files) |-> SplitExtRoot(m.src_files[i]) \o <<".o">>]

\* MAKE_HEADER.format(...): the values of its placeholders, each a list of the
\* words joined by " "
MakeHeader(top, params, generics, plusargs, opts, mods) ==
    [kind |-> "header",
     toplevel |-> top,
     parameters |-> ParamStrs(params, FALSE) \o ParamStrs(generics, TRUE),
     plusargs |-> ParamStrs(plusargs, FALSE),
     vsim_options |-> Get(opts, "vsim_options", <<>>),
     modules |-> ModuleNames(mods),
     clean_targets |-> CleanTargets(ModuleNames(mods))]

\* VPI_MAKE_SECTION.format(...): the values of its placeholders, the two targets
\* the template defines and what the clean target removes
VpiMakeSection(m) ==
    [kind |-> "vpi",
     name |-> m.name,
     objs |-> Objs(m),
     libs |-> [i \in 1..Len(m.libs) |-> <<"-l">> \o m.libs[i]],
     incs |-> [i \in 1..Len(m.include_dirs) |-> <<"-I">> \o m.include_dirs[i]],
     targets |-> <<m.name, <<"clean_">> \o m.name>>,
     removes |-> Objs(m) \o <<m.name>>]

\* the Makefile as written: the header, then one section per module
MakefileText(top, params, generics, plusargs, opts, mods) ==
    <<MakeHeader(top, params, generics, plusargs, opts, mods)>>
        \o [i \in 1..Len(mods) |-> VpiMakeSection(mods[i])]

-----------------------------------------------------------------------------
(* run_main *)

\* variant: the PLUSARGS override is appended without testing self.plusarg
RunArgsAlways(pa) ==
    <<Tok("run")>> \o << <<"PLUSARGS=">> \o Join(" ", ParamStrs(pa, FALSE)) >>

\* args handed to self._run_tool("make", args)
RunArgs(pa) ==
    <<Tok("run")>>
        \o (IF pa # <<>>
            THEN << <<"PLUSARGS=">> \o Join(" ", ParamStrs(pa, FALSE)) >>
            ELSE <<>>)

-----------------------------------------------------------------------------
(* The project descriptions the backend is constructed from *)

SeqsUpTo(S, n) == UNION {[1..k -> S] : k \in 0..n}

File(name, file_type, logical_name) ==
    [name |-> name, file_type |-> file_type, logical_name |-> logical_name]

\* every branch of the file_type dispatch
FileTypes ==
    { <<"verilogSource">>, <<"verilogSource", "-2005">>, <<"systemVerilogSource">>,
      <<"vhdlSource">>, <<"vhdlSource", "-87">>, <<"vhdlSource", "-93">>,
      <<"vhdlSource", "-2008">>, <<"tclSource">>, <<"user">>, <<"QIP">> }

\* logical names unset and set
LogicalNames == {"", "lib1"}

\* the path of the catalogue's file of a type and a library: files of a named
\* library live in a directory of that name, written with a backslash
PathOf(file_type, logical_name) ==
    (IF logical_name = "" THEN <<>> ELSE <<logical_name, "\\">>) \o <<"f.">> \o file_type

SourceFiles == {File(PathOf(t, l), t, l) : t \in FileTypes, l \in LogicalNames}

FileLists == SeqsUpTo(SourceFiles, MaxFiles)

DefaultFiles ==
    << File(<<"f.sv">>, <<"systemVerilogSource">>, "lib1"),
       File(<<"i.vhd">>, <<"vhdlSource", "-93">>, "") >>

Value(type, text) == [type |-> type, text |-> text]

Param(key, value) == [key |-> key, value |-> value]

ModeChoices ==
    {<<>>, "compilation_mode" :> "common", "compilation_mode" :> "sep"}

VlogOptionChoices == {<<>>, "vlog_options" :> <<>>, "vlog_options" :> <<Tok("-lint")>>}

VcomOptionChoices == {<<>>, "vcom_options" :> <<Tok("-explicit")>>}

VsimOptionChoices == {<<>>, "vsim_options" :> <<Tok("-novopt")>>}

DefineChoices ==
    { <<>>,
      <<Param("D", Value("int", "1"))>>,
      <<Param("D", Value("int", "1")), Param("E", Value("bool", "True"))>> }

IncdirChoices == {<<>>, << <<"inc", "\\", "sub">> >>}

PlusargChoices ==
    { <<>>,
      <<Param("seed", Value("str", "1"))>>,
      <<Param("seed", Value("str", "1")), Param("verbose", Value("bool", "True"))>>,
      <<Param("verbose", Value("bool", "False")), Param("seed", Value("str", "1"))>> }

VlogparamChoices == {<<>>, <<Param("DEPTH", Value("int", "4"))>>}

GenericChoices ==
    { <<>>,
      <<Param("WIDTH", Value("int", "8"))>>,
      <<Param("EN", Value("bool", "True"))>> }

VpiModule(name, srcs, ls, dirs) ==
    [name |-> name, src_files |-> srcs, libs |-> ls, include_dirs |-> dirs]

VpiModuleSet ==
    { VpiModule(<<"foo">>, << <<"a", ".", "c">>, <<"b", ".", "cpp">> >>, << <<"m">> >>,
                << <<"/x">> >>),
      VpiModule(<<"bar">>, << <<"x", ".", "y", "/", "z">> >>, <<>>, <<>>),
      VpiModule(<<"baz">>, << <<"p", "/", ".", "q">>, <<"r", ".", "s", ".", "c">> >>,
                << <<"m">>, <<"dl">> >>, <<>>) }

\* VPI module names are unique
ModuleLists ==
    { ms \in SeqsUpTo(VpiModuleSet, MaxModules) :
        \A i, j \in DOMAIN ms : i # j => ms[i].name # ms[j].name }

DefaultModules ==
    << VpiModule(<<"foo">>, << <<"a", ".", "c">>, <<"b", ".", "cpp">> >>, << <<"m">> >>,
                 << <<"/x">> >>) >>

\* projects that vary the source files and the compilation mode
FileProjects ==
    /\ src_files \in FileLists
    /\ tool_options \in
         {m @@ v @@ ("vcom_options" :> <<Tok("-explicit")>>) :
            m \in ModeChoices, v \in VlogOptionChoices}
    /\ incdirs = << <<"inc", "\\", "sub">> >>
    /\ vlogdefine = <<Param("D", Value("int", "1"))>>
    /\ vlogparam = <<>>
    /\ generic = <<Param("WIDTH", Value("int", "8"))>>
    /\ plusarg = <<Param("seed", Value("str", "1"))>>
    /\ vpi_modules = DefaultModules

\* projects that vary the tool options, the defines and the include directories
OptionProjects ==
    /\ src_files = DefaultFiles
    /\ tool_options \in
         {m @@ v @@ c : m \in ModeChoices, v \in VlogOptionChoices, c \in VcomOptionChoices}
    /\ incdirs \in IncdirChoices
    /\ vlogdefine \in DefineChoices
    /\ vlogparam = <<>>
    /\ generic = <<>>
    /\ plusarg = <<>>
    /\ vpi_modules = <<>>

\* projects that vary what the Makefile and the run are made of
MakeProjects ==
    /\ src_files = DefaultFiles
    /\ tool_options \in VsimOptionChoices
    /\ incdirs = <<>>
    /\ vlogdefine = <<>>
    /\ vlogparam \in VlogparamChoices
    /\ generic \in GenericChoices
    /\ plusarg \in PlusargChoices
    /\ vpi_modules \in ModuleLists

\* the state after construction: nothing generated, nothing run
Init ==
    /\ FileProjects \/ OptionProjects \/ MakeProjects
    /\ user_options = tool_options
    /\ toplevel = <<"tb_top">>
    /\ build_rtl = <<>>
    /\ main_tcl = <<>>
    /\ makefile = <<>>
    /\ log = <<>>
    /\ run_calls = <<>>
    /\ pc = "idle"
    /\ idx = 1
    /\ libs = <<>>
    /\ vlog_files = <<>>
    /\ n_configure = 0
    /\ n_run = 0

-----------------------------------------------------------------------------
(* Actions *)

\* the two lines configure_main writes before anything else
MainPreamble ==
    << <<Tok("onerror"), Tok("{"), Tok("quit"), Tok("-code"), Tok("1;"), Tok("}")>>,
       <<Tok("do"), Tok("edalize_build_rtl.tcl")>> >>

\* configure_main up to the loop: both Tcl scripts are opened for writing
\* (truncated), the preamble is written, the locals are initialised
ConfigureBegin ==
    /\ pc = "idle"
    /\ n_configure + n_run < MaxCalls
    /\ main_tcl' = MainPreamble
    /\ build_rtl' = <<>>
    /\ libs' = <<>>
    /\ vlog_files' = <<>>
    /\ idx' = 1
    /\ pc' = "loop"
    /\ UNCHANGED <<inputs, tool_options, makefile, log, run_calls, n_configure, n_run>>

\* one iteration of `for f in src_files`
LoopStep ==
    /\ pc = "loop"
    /\ idx <= Len(src_files)
    /\ LET f == src_files[idx]
       IN  /\ build_rtl' = build_rtl \o VlibLines(f, libs)
                               \o CompileLines(f, tool_options, vlogdefine, incdirs)
           /\ libs' = IF LogicalName(f) \notin Range(libs)
                      THEN Append(libs, LogicalName(f)) ELSE libs
           /\ vlog_files' = IF IsVerilog(f) THEN Append(vlog_files, f) ELSE vlog_files
           /\ main_tcl' = IF IsTclSource(f) THEN Append(main_tcl, DoLine(f)) ELSE main_tcl
           /\ log' = IF IsUnknown(f) THEN Append(log, Warning(f)) ELSE log
    /\ idx' = idx + 1
    /\ UNCHANGED <<inputs, tool_options, makefile, run_calls, pc, n_configure, n_run>>

\* after the loop: the aggregate vlog of common compilation
LoopExit ==
    /\ pc = "loop"
    /\ idx > Len(src_files)
    /\ IF CommonCompilation(tool_options)
       THEN LET args == CommonArgs(tool_options, vlogdefine, incdirs, vlog_files)
            IN  /\ build_rtl' = Append(build_rtl, CommonLine(args, vlog_files))
                /\ tool_options' = OptionsAfterCommon(tool_options, args)
       ELSE UNCHANGED <<build_rtl, tool_options>>
    /\ pc' = "makefile"
    /\ UNCHANGED <<inputs, main_tcl, makefile, log, run_calls, idx, libs, vlog_files,
                   n_configure, n_run>>

\* _write_makefile, then tcl_main.close(): configure_main returns
WriteMakefile ==
    /\ pc = "makefile"
    /\ makefile' = MakefileText(toplevel, vlogparam, generic, plusarg, tool_options,
                                vpi_modules)
    /\ pc' = "idle"
    /\ n_configure' = n_configure + 1
    /\ UNCHANGED <<inputs, tool_options, build_rtl, main_tcl, log, run_calls, idx, libs,
                   vlog_files, n_run>>

\* run_main
RunMain ==
    /\ pc = "idle"
    /\ n_configure + n_run < MaxCalls
    /\ run_calls' = Append(run_calls, [cmd |-> "make", args |-> RunArgs(plusarg)])
    /\ n_run' = n_run + 1
    /\ UNCHANGED <<inputs, tool_options, build_rtl, main_tcl, makefile, log, pc, idx,
                   libs, vlog_files, n_configure>>

\* between two calls the caller gives the backend other defines and other VPI
\* modules; the tool_options dictionary stays the one it was constructed with
NewProject ==
    /\ pc = "idle"
    /\ n_configure + n_run < MaxCalls
    /\ vlogdefine' \in DefineChoices
    /\ vpi_modules' \in ModuleLists
    /\ <<vlogdefine', vpi_modules'>> # <<vlogdefine, vpi_modules>>
    /\ UNCHANGED <<src_files, incdirs, tool_options, user_options, vlogparam, generic,
                   plusarg, toplevel, build_rtl, main_tcl, makefile, log, run_calls, pc,
                   idx, libs, vlog_files, n_configure, n_run>>

Next == ConfigureBegin \/ LoopStep \/ LoopExit \/ WriteMakefile \/ RunMain

Spec == Init /\ [][Next]_vars

\* generation calls with a project description that changes between them
InitRegen == Init /\ OptionProjects

NextRegen == Next \/ NewProject

SpecRegen == InitRegen /\ [][NextRegen]_vars

-----------------------------------------------------------------------------
(* Properties *)

\* a generation call has written the whole build and bootstrap scripts
ScriptsWritten == pc = "makefile" \/ (pc = "idle" /\ n_configure > 0)

\* configure_main has returned at least once and none is running
Generated == pc = "idle" /\ n_configure > 0

\* the step taken is the loop iteration for src_files[idx]
Iteration ==
    /\ pc = "loop"
    /\ idx <= Len(src_files)
    /\ idx' = idx + 1

IsVlibLine(line) == line[1] = Tok("vlib")

IsVlogLine(line) == line[1] = Tok("vlog")

IsVcomLine(line) == line[1] = Tok("vcom")

IsCompileDirective(line) == IsVlogLine(line) \/ IsVcomLine(line)

IsHdl(f) == IsVerilog(f) \/ IsVhdl(f)

\* the libraries a directive names with -work
WorkLibs(line) == {line[i + 1] : i \in {k \in 1..(Len(line) - 1) : line[k] = Tok("-work")}}

ForwardSlashes(p) == [i \in 1..Len(p) |-> IF p[i] = "\\" THEN "/" ELSE p[i]]

LibraryOf(f) == IF f.logical_name = "" THEN "work" ELSE f.logical_name

LastTokens(line, n) == SubSeq(line, Len(line) - n + 1, Len(line))

\* C1: the build script holds at most one `vlib L` per library L, and every
\* vlog/vcom directive that names a library with -work, the aggregate vlog of
\* common compilation included, comes after the `vlib` of that library.
C1_VlibOncePrecedesWork ==
    /\ \A i, j \in DOMAIN build_rtl :
         IsVlibLine(build_rtl[i]) /\ build_rtl[i] = build_rtl[j] => i = j
    /\ \A j \in DOMAIN build_rtl :
         IsCompileDirective(build_rtl[j]) =>
            \A L \in WorkLibs(build_rtl[j]) :
               \E i \in 1..(j - 1) : build_rtl[i] = <<Tok("vlib"), L>>

\* the revision flag a vhdlSource type asks for
StdFlag(file_type) ==
    IF EndsWith(file_type, "-87") THEN <<Tok("-87")>>
    ELSE IF EndsWith(file_type, "-93") THEN <<Tok("-93")>>
    ELSE IF EndsWith(file_type, "-2008") THEN <<Tok("-2008")>>
    ELSE <<>>

\* C2: the iteration for a VHDL file writes a vcom directive whose arguments
\* start with the revision flag of the file's type (-87, -93, -2008, or none),
\* followed by the user's vcom_options.
C2_VcomCarriesStdFlag ==
    [][Iteration /\ IsVhdl(src_files[idx]) =>
         /\ Len(build_rtl') > Len(build_rtl)
         /\ LET line == build_rtl'[Len(build_rtl')]
                head == <<Tok("vcom")>> \o StdFlag(src_files[idx].file_type)
                            \o Get(tool_options, "vcom_options", <<>>)
            IN  /\ Len(line) >= Len(head)
                /\ SubSeq(line, 1, Len(head)) = head]_vars

\* C3: in common compilation the finished build script holds exactly one vlog
\* directive, its last line, which ends with -mfcu and the paths of all
\* Verilog/SystemVerilog files in source order; and one vcom directive per VHDL
\* file, in source order.
C3_CommonOneAggregateVlog ==
    ScriptsWritten /\ CommonCompilation(tool_options) =>
        LET vlogs == {j \in DOMAIN build_rtl : IsVlogLine(build_rtl[j])}
            vcoms == SelectSeq(build_rtl, IsVcomLine)
            vfiles == SelectSeq(src_files, IsVerilog)
            hfiles == SelectSeq(src_files, IsVhdl)
            last == build_rtl[Len(build_rtl)]
        IN  /\ vlogs = {Len(build_rtl)}
            /\ Len(last) >= Len(vfiles) + 2
            /\ LastTokens(last, Len(vfiles)) =
                  [i \in 1..Len(vfiles) |-> ForwardSlashes(vfiles[i].name)]
            /\ last[Len(last) - Len(vfiles)] = Tok("-mfcu")
            /\ Len(vcoms) = Len(hfiles)
            /\ \A k \in DOMAIN vcoms :
                  LastTokens(vcoms[k], 1) = <<ForwardSlashes(hfiles[k].name)>>

C3_Witness ==
    /\ Generated
    /\ n_configure = 2
    /\ CommonCompilation(tool_options)
    /\ Len(SelectSeq(src_files, IsVerilog)) = 2
    /\ src_files[1] # src_files[2]

\* C4: in separate compilation the finished build script holds one vlog/vcom
\* directive per Verilog, SystemVerilog or VHDL file, in source order, each
\* ending in -quiet -work <library of the file> <path of the file, with
\* forward slashes>; no other file adds a directive.
C4_SeparateOneDirectivePerFile ==
    ScriptsWritten /\ ~CommonCompilation(tool_options) =>
        LET lines == SelectSeq(build_rtl, IsCompileDirective)
            hdl == SelectSeq(src_files, IsHdl)
        IN  /\ Len(lines) = Len(hdl)
            /\ \A k \in DOMAIN lines :
                 /\ lines[k][1] = Tok(IF IsVhdl(hdl[k]) THEN "vcom" ELSE "vlog")
                 /\ Len(lines[k]) >= 5
                 /\ LastTokens(lines[k], 4) =
                       <<Tok("-quiet"), Tok("-work"), Tok(LibraryOf(hdl[k])),
                         ForwardSlashes(hdl[k].name)>>

C4_Witness ==
    /\ Generated
    /\ ~CommonCompilation(tool_options)
    /\ Len(src_files) = 2
    /\ IsVhdl(src_files[1]) /\ src_files[1].logical_name = "lib1"
    /\ IsVerilog(src_files[2]) /\ src_files[2].logical_name = "lib1"
    /\ \E i \in DOMAIN src_files[2].name : src_files[2].name[i] = "\\"

\* C5: the iteration for a file of unrecognised type writes nothing to the
\* build script and nothing to the bootstrap script, and logs exactly one
\* warning, which names the file.
C5_UnknownTypeWritesNothing ==
    [][Iteration /\ IsUnknown(src_files[idx]) =>
         /\ build_rtl' = build_rtl
         /\ main_tcl' = main_tcl
         /\ Len(log') = Len(log) + 1
         /\ log'[Len(log')].name = src_files[idx].name]_vars

\* the PLUSARGS override: "PLUSARGS=" and the key=value pairs, one space between
PlusargsOverride(pa) ==
    /\ Len(pa.tok) = 4 * Len(pa.map)
    /\ pa.tok[1] = "PLUSARGS="
    /\ \A i \in DOMAIN pa.map :
         /\ pa.tok[4 * i - 2] = pa.map[i].key
         /\ pa.tok[4 * i - 1] = "="
         /\ pa.tok[4 * i] = ParamValueStr(pa.map[i].value, FALSE)
         /\ i > 1 => pa.tok[4 * i - 3] = " "

\* C6: every run_main call invokes the process runner once, with command
\* make and first argument run; the only other argument ever passed is
\* PLUSARGS=<key=value pairs in plusarg order>, present exactly when the plusarg
\* map is not empty.
C6_RunInvokesMakeRun ==
    /\ Len(run_calls) = n_run
    /\ \A i \in DOMAIN run_calls :
         /\ run_calls[i].cmd = "make"
         /\ run_calls[i].args[1] = Tok("run")
         /\ Len(run_calls[i].args) = IF plusarg = <<>> THEN 1 ELSE 2
         /\ plusarg # <<>> =>
               PlusargsOverride([tok |-> run_calls[i].args[2], map |-> plusarg])

C6_Witness ==
    /\ n_run = 2
    /\ Len(plusarg) = 2
    /\ plusarg[1].key = "verbose"

\* what the loop writes to the build script for `files`, given the libraries
\* already declared
RECURSIVE LoopLines(_, _, _)
LoopLines(files, seen, opts) ==
    IF files = <<>> THEN <<>>
    ELSE VlibLines(Head(files), seen)
            \o CompileLines(Head(files), opts, vlogdefine, incdirs)
            \o LoopLines(Tail(files), Append(seen, LogicalName(Head(files))), opts)

\* the three artifacts as one generation call writes them from the project
\* description and the tool options `opts`
ArtifactsOf(opts) ==
    [build_rtl |->
        LoopLines(src_files, <<>>, opts)
           \o (IF CommonCompilation(opts)
               THEN << CommonLine(CommonArgs(opts, vlogdefine, incdirs,
                                             SelectSeq(src_files, IsVerilog)),
                                  SelectSeq(src_files, IsVerilog)) >>
               ELSE <<>>),
     main_tcl |->
        MainPreamble
           \o [i \in 1..Len(SelectSeq(src_files, IsTclSource)) |->
                 DoLine(SelectSeq(src_files, IsTclSource)[i])],
     makefile |->
        MakefileText(toplevel, vlogparam, generic, plusarg, opts, vpi_modules)]

\* C7: whenever a generation call returns, whatever calls came before it,
\* the three artifacts are what the inputs of that call alone produce: nothing
\* of an earlier call remains in them.
C7_ArtifactsOfLastCallOnly ==
    [][pc = "makefile" /\ pc' = "idle" =>
         /\ build_rtl' = ArtifactsOf(user_options).build_rtl
         /\ main_tcl' = ArtifactsOf(user_options).main_tcl
         /\ makefile' = ArtifactsOf(user_options).makefile]_vars

\* C8: the generated Makefile holds one section per VPI module, in module
\* order, each defining the targets <name> and clean_<name> and listing one .o
\* object per source file in order; VPI_MODULES lists the module names in
\* order and clean depends on exactly the clean_<name> targets.
C8_MakefileSections ==
    Generated =>
        LET header == makefile[1]
            sections == Tail(makefile)
        IN  /\ header.kind = "header"
            /\ Len(sections) = Len(vpi_modules)
            /\ header.modules = [i \in 1..Len(vpi_modules) |-> vpi_modules[i].name]
            /\ header.clean_targets =
                  [i \in 1..Len(vpi_modules) |-> <<"clean_">> \o vpi_modules[i].name]
            /\ \A i \in DOMAIN sections :
                 LET m == vpi_modules[i]
                 IN  /\ sections[i].kind = "vpi"
                     /\ sections[i].targets = <<m.name, <<"clean_">> \o m.name>>
                     /\ Len(sections[i].objs) = Len(m.src_files)
                     /\ \A k \in DOMAIN m.src_files :
                          LET obj == sections[i].objs[k]
                          IN  /\ obj[Len(obj)] = ".o"
                              /\ Len(obj) - 1 <= Len(m.src_files[k])
                              /\ SubSeq(obj, 1, Len(obj) - 1) =
                                    SubSeq(m.src_files[k], 1, Len(obj) - 1)

C8_Witness ==
    /\ Generated
    /\ Len(vpi_modules) = 2
    /\ vpi_modules[1].name = <<"baz">>
    /\ Len(makefile) = 3

\* C9: the finished bootstrap script is the error trap, then
\* `do edalize_build_rtl.tcl`, then one `do <file>` per tclSource file in source
\* order, and nothing else, in both compilation modes.
C9_BootstrapScript ==
    ScriptsWritten =>
        LET tcl == SelectSeq(src_files, IsTclSource)
        IN  /\ Len(main_tcl) = 2 + Len(tcl)
            /\ main_tcl[1] = <<Tok("onerror"), Tok("{"), Tok("quit"), Tok("-code"),
                               Tok("1;"), Tok("}")>>
            /\ main_tcl[2] = <<Tok("do"), Tok("edalize_build_rtl.tcl")>>
            /\ \A i \in DOMAIN tcl : main_tcl[2 + i] = <<Tok("do"), tcl[i].name>>

C9_Witness ==
    /\ Generated
    /\ CommonCompilation(tool_options)
    /\ Len(SelectSeq(src_files, IsTclSource)) = 2
    /\ src_files[1].logical_name = "lib1"
    /\ src_files[2].logical_name = ""
    /\ Len(main_tcl) = 4

\* C10: no step of a generation call changes the vlog_options, vcom_options
\* or vsim_options held in tool_options.
C10_GenerationKeepsToolOptions ==
    [][pc # "idle" \/ pc' # "idle" =>
         \A k \in {"vlog_options", "vcom_options", "vsim_options"} :
            /\ (k \in DOMAIN tool_options') = (k \in DOMAIN tool_options)
            /\ k \in DOMAIN tool_options => tool_options'[k] = tool_options[k]]_vars

====
